---- MODULE Spec2Model ----
(***************************************************************************)
(* Model of the useFormValidation hook (src/unnamed/part_002).             *)
(*                                                                         *)
(* One form instance: the rules passed at construction, the two pieces of  *)
(* React state (errors, hasValidationAttempted) and the five callbacks the *)
(* hook returns.  Every callback runs to completion; the variable `call`   *)
(* records the callback that ran last, its arguments, what it returned and *)
(* (for the callbacks that write errors) the error map it started from.    *)
(*                                                                         *)
(* Form values are sequences of one-character strings, so that length and  *)
(* character class are computed; error messages are atomic strings.        *)
(***************************************************************************)
EXTENDS Integers, Sequences, FiniteSets, TLC

VARIABLES rules, errors, hasValidationAttempted, call

vars == <<rules, errors, hasValidationAttempted, call>>

----------------------------------------------------------------------------
(* Bounds *)

\* longest generated form value
MaxLen == 2

\* most keys a caller overrides in the rules it passes
MaxOverrides == 1

----------------------------------------------------------------------------
(* Values *)

\* JavaScript's undefined, as returned by validateField
Undefined == "undefined"

\* the empty object {}
EmptyMap == [k \in {} |-> Undefined]

Alphabet == {"a"}

AlnumChars == {"a", "b", "c", "d", "e", "f", "g", "h", "i", "l", "m", "n", "o",
               "r", "s", "t", "u", "w", "P", "0"}

male == <<"m", "a", "l", "e">>
female == <<"f", "e", "m", "a", "l", "e">>
other == <<"o", "t", "h", "e", "r">>
preferNotToSay == <<"p", "r", "e", "f", "e", "r", "-", "n", "o", "t", "-", "t", "o", "-", "s", "a", "y">>

alice == <<"a", "l", "i", "c", "e">>
short == <<"s", "h", "o", "r", "t">>
longenough == <<"l", "o", "n", "g", "e", "n", "o", "u", "g", "h">>
Passw0rd == <<"P", "a", "s", "s", "w", "0", "r", "d", "!">>

\* all sequences over Alphabet of length at most MaxLen
GeneratedValues == UNION {[1..n -> Alphabet] : n \in 0..MaxLen}

Values == GeneratedValues \cup {alice, short, longenough, Passw0rd, male, other}

\* type FormData: gender is optional
FormData ==
  [username : GeneratedValues \cup {alice},
   password : GeneratedValues \cup {short, longenough, Passw0rd}]
    \cup [username : {alice}, password : {Passw0rd}, gender : {<<>>, male, other}]

FormDataKeys == {"username", "password", "gender"}

\* type ValidationErrors: the keys of the error map
ValidationErrorsKeys == {"username", "password", "gender", "form"}

\* field names a caller passes to validateField at run time
FieldNames == FormDataKeys \cup {"email"}

\* messages a caller passes to setError
Messages == {"Server rejected", "Taken"}

----------------------------------------------------------------------------
(* Rules *)

DEFAULT_RULES ==
  [usernameMinLength |-> 3,
   usernameMaxLength |-> 20,
   passwordMinLength |-> 8,
   passwordRequireSpecialChars |-> TRUE,
   isGenderRequired |-> FALSE,
   genderOptions |-> {male, female, other, preferNotToSay}]

RuleKeys == DOMAIN DEFAULT_RULES

\* values a caller supplies for the keys it overrides
Overrides ==
  [usernameMinLength |-> 1,
   usernameMaxLength |-> 2,
   passwordMinLength |-> 10,
   passwordRequireSpecialChars |-> FALSE,
   isGenderRequired |-> TRUE,
   genderOptions |-> {male, female}]

\* type ValidationRules: every key optional
ValidationRules ==
  {[k \in S |-> Overrides[k]] :
     S \in {T \in SUBSET RuleKeys : Cardinality(T) <= MaxOverrides}}

\* object spread { ...a, ...b }
Spread(a, b) ==
  [k \in DOMAIN a \cup DOMAIN b |-> IF k \in DOMAIN b THEN b[k] ELSE a[k]]

validationRules_defaultsWin == Spread(rules, DEFAULT_RULES)

\* const validationRules = useMemo(() => ({...DEFAULT_RULES, ...rules}), [rules])
validationRules == Spread(DEFAULT_RULES, rules)

\* const isValid = useMemo(() => Object.keys(errors).length === 0, [errors])
isValid == Cardinality(DOMAIN errors) = 0

----------------------------------------------------------------------------
(* Callbacks *)

\* validateField's body: "return undefined"
validateField(fieldName, value) == Undefined

newErrors_gender(formData) ==
  IF "gender" \in DOMAIN formData /\ formData.gender # <<>>
    THEN EmptyMap
    ELSE [k \in {"gender"} |-> "Required"]

\* validateForm's newErrors: created empty and never written
newErrors(formData) == EmptyMap

clearFieldErrorUpdater_all(prev, fieldName) ==
  IF fieldName \in DOMAIN prev THEN EmptyMap ELSE prev

\* clearFieldError's updater: prev => { copy; delete copy[fieldName]; copy }
clearFieldErrorUpdater(prev, fieldName) ==
  [k \in DOMAIN prev \ {fieldName} |-> prev[k]]

setErrorUpdater_noPrev(prev, fieldName, error) ==
  [k \in {fieldName} |-> error]

\* setError's updater: prev => ({ ...prev, [fieldName]: error })
setErrorUpdater(prev, fieldName, error) ==
  Spread(prev, [k \in {fieldName} |-> error])

Init ==
  /\ rules \in ValidationRules
  /\ errors = EmptyMap
  /\ hasValidationAttempted = FALSE
  /\ call = [op |-> "useFormValidation"]

ValidateField_storing ==
  \E fieldName \in FieldNames, value \in Values :
    /\ call' = [op |-> "validateField", fieldName |-> fieldName,
                value |-> value, ret |-> validateField(fieldName, value)]
    /\ errors' = setErrorUpdater(errors, fieldName, validateField(fieldName, value))
    /\ UNCHANGED <<rules, hasValidationAttempted>>

ValidateField ==
  \E fieldName \in FieldNames, value \in Values :
    /\ call' = [op |-> "validateField", fieldName |-> fieldName,
                value |-> value, ret |-> validateField(fieldName, value)]
    /\ UNCHANGED <<rules, errors, hasValidationAttempted>>

ValidateForm_merging ==
  \E formData \in FormData :
    /\ hasValidationAttempted' = TRUE
    /\ errors' = Spread(errors, newErrors(formData))
    /\ call' = [op |-> "validateForm", formData |-> formData,
                ret |-> newErrors(formData), prev |-> errors]
    /\ UNCHANGED rules

ValidateForm ==
  \E formData \in FormData :
    /\ hasValidationAttempted' = TRUE
    /\ errors' = newErrors(formData)
    /\ call' = [op |-> "validateForm", formData |-> formData,
                ret |-> newErrors(formData), prev |-> errors]
    /\ UNCHANGED rules

ClearErrors_keepAttempted ==
  /\ errors' = EmptyMap
  /\ call' = [op |-> "clearErrors"]
  /\ UNCHANGED <<rules, hasValidationAttempted>>

ClearErrors ==
  /\ errors' = EmptyMap
  /\ hasValidationAttempted' = FALSE
  /\ call' = [op |-> "clearErrors"]
  /\ UNCHANGED rules

ClearFieldError ==
  \E fieldName \in FormDataKeys :
    /\ errors' = clearFieldErrorUpdater(errors, fieldName)
    /\ call' = [op |-> "clearFieldError", fieldName |-> fieldName,
                prev |-> errors]
    /\ UNCHANGED <<rules, hasValidationAttempted>>

SetError ==
  \E fieldName \in ValidationErrorsKeys, error \in Messages :
    /\ errors' = setErrorUpdater(errors, fieldName, error)
    /\ call' = [op |-> "setError", fieldName |-> fieldName, error |-> error,
                prev |-> errors]
    /\ UNCHANGED <<rules, hasValidationAttempted>>

Next ==
  \/ ValidateField
  \/ ValidateForm
  \/ ClearErrors
  \/ ClearFieldError
  \/ SetError

Spec == Init /\ [][Next]_vars

----------------------------------------------------------------------------
(* The validation rules as the documentation states them *)

HasSpecialChar(value) == \E i \in 1..Len(value) : value[i] \notin AlnumChars

RuleFor(r, fieldName, value) ==
  CASE fieldName = "username" ->
         IF Len(value) < r.usernameMinLength THEN "TooShort"
         ELSE IF Len(value) > r.usernameMaxLength THEN "TooLong"
         ELSE Undefined
    [] fieldName = "password" ->
         IF Len(value) < r.passwordMinLength THEN "TooShort"
         ELSE IF r.passwordRequireSpecialChars /\ ~HasSpecialChar(value)
           THEN "MissingSpecialChar"
         ELSE Undefined
    [] fieldName = "gender" ->
         IF ~r.isGenderRequired THEN Undefined
         ELSE IF value = <<>> THEN "Required"
         ELSE IF value \notin r.genderOptions THEN "InvalidOption"
         ELSE Undefined
    [] OTHER -> "UnknownField"

\* an absent gender is an empty one
FieldOf(formData, fieldName) ==
  IF fieldName \in DOMAIN formData THEN formData[fieldName] ELSE <<>>

FailingFields(r, formData) ==
  {f \in FormDataKeys : RuleFor(r, f, FieldOf(formData, f)) # Undefined}

RuleForForm(r, formData) ==
  [f \in FailingFields(r, formData) |-> RuleFor(r, f, FieldOf(formData, f))]

----------------------------------------------------------------------------
(* Claims *)

\* C1: validateForm returns the map that has an entry for exactly the fields
\* that fail their rule under the merged rules, so it returns the empty map
\* when and only when the form is fully valid.
C1_ValidateFormReportsFailures ==
  call.op = "validateForm" =>
    call.ret = RuleForForm(validationRules, call.formData)

\* C2: validateField returns, for username, password and gender, what the
\* rule of that field gives for the value under the merged rules.
C2_ValidateFieldFollowsRule ==
  (call.op = "validateField" /\ call.fieldName \in FormDataKeys) =>
    call.ret = RuleFor(validationRules, call.fieldName, call.value)

C4_ValidateFormReplacesErrors ==
  call.op = "validateForm" =>
    /\ errors = call.ret
    /\ \A k \in DOMAIN call.prev \ DOMAIN call.ret : k \notin DOMAIN errors
    /\ hasValidationAttempted

C4_Witness ==
  /\ call.op = "validateForm"
  /\ "form" \in DOMAIN call.prev
  /\ "username" \in DOMAIN call.prev
  /\ "form" \notin DOMAIN errors
  /\ hasValidationAttempted

\* C5: hasValidationAttempted is false at construction; validateForm makes it
\* true, clearErrors makes it false, and no other callback changes it, so it
\* is true exactly when validateForm ran since construction or the last
\* clearErrors.
C5_AttemptedTracksValidateForm ==
  /\ hasValidationAttempted = FALSE
  /\ [][hasValidationAttempted' =
          (CASE call'.op = "validateForm" -> TRUE
             [] call'.op = "clearErrors" -> FALSE
             [] OTHER -> hasValidationAttempted)]_vars

C5_Witness ==
  /\ call.op = "clearErrors"
  /\ ~hasValidationAttempted
  /\ rules # EmptyMap

\* C6: clearFieldError removes the named key and nothing else: every other
\* key keeps its message, no key is added, validation attempted is unchanged.
C6_ClearFieldErrorFrame ==
  [][call'.op = "clearFieldError" =>
       /\ call'.fieldName \notin DOMAIN errors'
       /\ DOMAIN errors' = DOMAIN errors \ {call'.fieldName}
       /\ \A k \in DOMAIN errors' : errors'[k] = errors[k]
       /\ (call'.fieldName \notin DOMAIN errors => errors' = errors)
       /\ hasValidationAttempted' = hasValidationAttempted]_vars

C6_Witness ==
  /\ call.op = "clearFieldError"
  /\ call.fieldName = "username"
  /\ "username" \in DOMAIN call.prev
  /\ "username" \notin DOMAIN errors
  /\ "form" \in DOMAIN errors
  /\ "password" \in DOMAIN errors

\* C7: setError writes the message under the named key and nothing else:
\* every other key keeps its message, validation attempted is unchanged and
\* isValid is false afterwards.
C7_SetErrorFrame ==
  [][call'.op = "setError" =>
       /\ DOMAIN errors' = DOMAIN errors \cup {call'.fieldName}
       /\ errors'[call'.fieldName] = call'.error
       /\ \A k \in DOMAIN errors \ {call'.fieldName} : errors'[k] = errors[k]
       /\ hasValidationAttempted' = hasValidationAttempted
       /\ ~isValid']_vars

C7_Witness ==
  /\ call.op = "setError"
  /\ call.fieldName = "form"
  /\ "form" \in DOMAIN call.prev
  /\ call.prev["form"] # call.error
  /\ errors["form"] = call.error
  /\ "username" \in DOMAIN errors
  /\ ~isValid

\* C8: validateField signals UnknownField exactly for a field name other than
\* username, password and gender; known fields never produce the signal.
C8_UnknownFieldSignalled ==
  call.op = "validateField" =>
    (call.fieldName \notin FormDataKeys <=> call.ret = "UnknownField")

\* C9: every rule has the caller's value if the caller supplied the key and
\* the default otherwise.
C9_RulesMergedOverDefaults ==
  /\ DOMAIN validationRules = RuleKeys
  /\ \A k \in RuleKeys :
       validationRules[k] = IF k \in DOMAIN rules THEN rules[k] ELSE DEFAULT_RULES[k]

C9_Witness ==
  /\ rules = [k \in {"passwordMinLength"} |-> 10]
  /\ validationRules.passwordMinLength = 10
  /\ validationRules.usernameMinLength = 3
  /\ validationRules.usernameMaxLength = 20
  /\ validationRules.passwordRequireSpecialChars
  /\ ~validationRules.isGenderRequired
  /\ Cardinality(validationRules.genderOptions) = 4

====
